---- MODULE Spec2Model ----
(***************************************************************************)
(* Model of the two Pure Data streaming externals of this repository:      *)
(*   rtmpstreamer~  (src/rtmpstreamer~.c)  push-style (RTMP/FLV/AAC)       *)
(*   rtspstreamer~  (src/rtspstreamer.c)   session-based (RTSP/PCM)        *)
(* The object struct, the host entry points (new, symbol, perform, free)   *)
(* and the helpers initialize_streaming / cleanup_streaming are translated *)
(* statement by statement.  The FFmpeg library is an opaque service: every *)
(* call the code makes is appended to `log`, every object the library      *)
(* hands out is tracked in `heap`, and every call that can fail does so    *)
(* nondeterministically.                                                   *)
(***************************************************************************)
EXTENDS Integers, Sequences, FiniteSets, TLC

VARIABLES variant, nofile, obj, x, fr, heap, log, last, played, pc

vars == <<variant, nofile, obj, x, fr, heap, log, last, played, pc>>

(***************************************************************************)
(* Bounds of the model.                                                    *)
(***************************************************************************)
MaxAttempts == 2       \* connect attempts per object
MaxPts == 3            \* cap of the presentation clock
MaxScript == 2         \* encoder results scripted per audio block

(***************************************************************************)
(* Program constants.                                                      *)
(***************************************************************************)
DefaultFrameSize == 1024
SchemeLen == 7

\* Samples are counted in halves, so that every sample and every product
\* sample * 32767.0f below is a float the machine represents exactly.
One == 2                     \* the float 1.0f
Int16Scale == 32767          \* the float 32767.0f

NULL == 0
NUL == "NUL"

(***************************************************************************)
(* Inputs.  A URL is a sequence of characters so that the prefix test of   *)
(* is_valid_rtmp_url is computed, not assumed.                             *)
(***************************************************************************)
Scheme == <<"r", "t", "m", "p", ":", "/", "/">>
UrlEmpty == << >>
UrlA == Scheme \o <<"a">>
UrlShort == <<"r", "t", "m", "p", ":", "/">>
UrlHttp == <<"h", "t", "t", "p", ":", "/", "/", "c">>
Urls == {UrlEmpty, UrlA, UrlShort, UrlHttp}
\* The symbol handlers never look past the length of the URL.
SymbolUrls == {UrlEmpty, UrlA, UrlHttp}

BlockLens == {1, 2}          \* block lengths n the host delivers
FrameSizes == {0, 1}         \* codec_ctx->frame_size after the codec is set up
Samples == (-One - 1) .. (One + 1)     \* sample values -1.5, -1.0 .. 1.5
Results == {"PKT_WOK", "PKT_WFAIL", "EAGAIN", "EOF", "ERR"}
FailSteps == 0 .. 11         \* 0: every sub-step succeeds; k: sub-step k fails

RECURSIVE SeqsUpTo(_, _)
SeqsUpTo(S, k) ==
  IF k = 0 THEN {<< >>}
  ELSE LET shorter == SeqsUpTo(S, k - 1)
       IN shorter \cup {Append(q, e) : q \in {r \in shorter : Len(r) = k - 1}, e \in S}

\* A script is the packets the encoder holds, each with the answer the
\* transport gives when it is written, and then how the encoder ends: once it
\* has answered EAGAIN, EOF or an error it has nothing more to say.
Scripts ==
  {q \in SeqsUpTo(Results, MaxScript) :
     \A i \in 1 .. (Len(q) - 1) : q[i] \in {"PKT_WOK", "PKT_WFAIL"}}

Range(f) == {f[i] : i \in DOMAIN f}

(***************************************************************************)
(* The machine state threaded through the translated functions:            *)
(*   x    the object struct                                                *)
(*   fr   the fields of the AVFrame x.frame points to                      *)
(*   heap the library objects: live (allocated, not released), dfree       *)
(*        (released when not live), and the id of the next connect         *)
(*        attempt; an object carries the id of the attempt that made it    *)
(*   log  the library and diagnostic calls of the running handler, each    *)
(*        <<call, object id, packet number>> (0 where there is none)       *)
(***************************************************************************)
ExtPkt(s, name, id, k) == [s EXCEPT !.log = Append(@, <<name, id, k>>)]

Ext(s, name, id) == ExtPkt(s, name, id, 0)

pd_error(s, tag) == Ext(s, "pd_error:" \o tag, 0)

post(s, tag) == Ext(s, "post:" \o tag, 0)

Acquire(s, kind, id) == [s EXCEPT !.heap.live = @ \cup {<<kind, id>>}]

Release(s, kind, id) ==
  IF <<kind, id>> \in s.heap.live
  THEN [s EXCEPT !.heap.live = @ \ {<<kind, id>>}]
  ELSE [s EXCEPT !.heap.dfree = @ \cup {<<kind, id>>}]

x0 == [url |-> << >>, fmt_ctx |-> NULL, audio_st |-> NULL, codec_ctx |-> NULL,
       frame |-> NULL, pts |-> 0, streaming_active |-> 0]

fr0 == [nb_samples |-> 0, pts |-> 0, cap |-> 0, data |-> << >>]

heap0 == [live |-> {}, dfree |-> {}, nextId |-> 1]

(***************************************************************************)
(* is_valid_rtmp_url: strncmp(url, "rtmp://", 7) == 0.                     *)
(***************************************************************************)
CharAt(a, i) == IF i <= Len(a) THEN a[i] ELSE NUL

strncmp_eq(a, b, n) ==
  \A i \in 1 .. n :
    (\A j \in 1 .. (i - 1) : CharAt(a, j) # NUL) => CharAt(a, i) = CharAt(b, i)

is_valid_rtmp_url(url) == strncmp_eq(url, Scheme, SchemeLen)

(***************************************************************************)
(* initialize_streaming (rtmpstreamer~.c).  `f` is the sub-step that fails *)
(* (0: none), `fs` the frame size the opened codec reports.  Sub-steps:    *)
(*  1 avformat_alloc_output_context2   2 avcodec_find_encoder              *)
(*  3 avformat_new_stream              4 avcodec_alloc_context3            *)
(*  5 av_channel_layout_copy           6 avcodec_open2                     *)
(*  7 avcodec_parameters_from_context  8 avio_open (unless AVFMT_NOFILE)   *)
(*  9 avformat_write_header           10 av_frame_alloc                    *)
(* 11 av_frame_get_buffer                                                  *)
(* Every failure path is a bare `return -1`.                               *)
(***************************************************************************)
Ret(s, r) == [s |-> s, ret |-> r]

NewAttempt(s) ==
  [Ext(s, "avformat_network_init", 0) EXCEPT !.heap.nextId = @ + 1]

initialize_streaming(s, f, fs, nf) ==
  LET id == s.heap.nextId
      a0 == NewAttempt(s)
      c1 == Ext(a0, "avformat_alloc_output_context2", id)
  IN
  IF f = 1 THEN Ret(pd_error([c1 EXCEPT !.x.fmt_ctx = NULL], "alloc_output"), -1)
  ELSE
  LET a1 == Acquire([c1 EXCEPT !.x.fmt_ctx = id], "fmt", id)
      c2 == Ext(a1, "avcodec_find_encoder", 0)
  IN
  IF f = 2 THEN Ret(pd_error(c2, "find_encoder"), -1)
  ELSE
  LET c3 == Ext(c2, "avformat_new_stream", id)
  IN
  IF f = 3 THEN Ret(pd_error([c3 EXCEPT !.x.audio_st = NULL], "new_stream"), -1)
  ELSE
  LET a3 == [c3 EXCEPT !.x.audio_st = id]
      c4 == Ext(a3, "avcodec_alloc_context3", id)
  IN
  IF f = 4 THEN Ret(pd_error([c4 EXCEPT !.x.codec_ctx = NULL], "alloc_codec"), -1)
  ELSE
  LET a4 == Acquire([c4 EXCEPT !.x.codec_ctx = id], "codec", id)
      c5 == Ext(a4, "av_channel_layout_copy", id)
  IN
  IF f = 5 THEN Ret(pd_error(c5, "channel_layout"), -1)
  ELSE
  LET c6 == Ext(c5, "avcodec_open2", id)
  IN
  IF f = 6 THEN Ret(pd_error(c6, "open_codec"), -1)
  ELSE
  LET c7 == Ext(c6, "avcodec_parameters_from_context", id)
  IN
  IF f = 7 THEN Ret(pd_error(c7, "copy_params"), -1)
  ELSE
  LET c8 == IF nf THEN c7 ELSE Ext(c7, "avio_open", id)
  IN
  IF ~nf /\ f = 8 THEN Ret(pd_error(c8, "avio_open"), -1)
  ELSE
  LET a8 == IF nf THEN c8 ELSE Acquire(c8, "pb", id)
      c9 == Ext(a8, "avformat_write_header", id)
  IN
  IF f = 9 THEN Ret(pd_error(c9, "write_header"), -1)
  ELSE
  LET c10 == Ext(c9, "av_frame_alloc", id)
  IN
  IF f = 10 THEN Ret(pd_error([c10 EXCEPT !.x.frame = NULL], "frame_alloc"), -1)
  ELSE
  LET a10 == Acquire([c10 EXCEPT !.x.frame = id], "frame", id)
      n0 == [a10 EXCEPT !.fr = [nb_samples |-> fs, pts |-> 0, cap |-> 0, data |-> << >>]]
      n1 == IF n0.fr.nb_samples = 0
            THEN [n0 EXCEPT !.fr.nb_samples = DefaultFrameSize]
            ELSE n0
      c11 == Ext(n1, "av_frame_get_buffer", id)
  IN
  IF f = 11 THEN Ret(pd_error(c11, "get_buffer"), -1)
  ELSE Ret([c11 EXCEPT !.fr.cap = c11.fr.nb_samples], 0)

(***************************************************************************)
(* cleanup_streaming (rtmpstreamer~.c): check-then-null release of the     *)
(* container (trailer, transport close, free), the codec and the frame,    *)
(* followed by an unconditional avformat_network_deinit.  x.audio_st is    *)
(* not reset.  What av_write_trailer returns is not read: `trOk` is its    *)
(* answer, and a negative one is noted in the log after the call.          *)
(***************************************************************************)
av_write_trailer(s, trOk) ==
  LET c == Ext(s, "av_write_trailer", s.x.fmt_ctx)
  IN IF trOk THEN c ELSE Ext(c, "av_write_trailer:failed", s.x.fmt_ctx)

cleanup_streaming(s, nf, trOk) ==
  LET s1 == IF s.x.fmt_ctx # NULL
            THEN LET t1 == av_write_trailer(s, trOk)
                     t2 == IF nf THEN t1
                           ELSE Release(Ext(t1, "avio_closep", s.x.fmt_ctx),
                                        "pb", s.x.fmt_ctx)
                     t3 == Release(Ext(t2, "avformat_free_context", s.x.fmt_ctx),
                                   "fmt", s.x.fmt_ctx)
                 IN [t3 EXCEPT !.x.fmt_ctx = NULL]
            ELSE s
      s2 == IF s1.x.codec_ctx # NULL
            THEN [Release(Ext(s1, "avcodec_free_context", s1.x.codec_ctx),
                          "codec", s1.x.codec_ctx)
                    EXCEPT !.x.codec_ctx = NULL]
            ELSE s1
      s3 == IF s2.x.frame # NULL
            THEN [Release(Ext(s2, "av_frame_free", s2.x.frame), "frame", s2.x.frame)
                    EXCEPT !.x.frame = NULL]
            ELSE s2
  IN Ext(s3, "avformat_network_deinit", 0)

(***************************************************************************)
(* The packet drain loop of perform: `while (ret >= 0)`.  `script` is what *)
(* the encoder and the transport answer, one entry per iteration; an       *)
(* exhausted script answers EAGAIN (an encoder holds finitely many packets *)
(* per frame).  `k` numbers the packets of the call: it is the content of  *)
(* the local `pkt` from the receive that fills it to the unref.            *)
(***************************************************************************)
\* Variant of the drain loop that asks for the next packet before it writes
\* the one it holds: a packet followed by another is overwritten unwritten.
RECURSIVE drain_overwrite(_, _, _, _)
drain_overwrite(s, script, tag, k) ==
  LET r == IF script = << >> THEN "EAGAIN" ELSE Head(script)
  IN
  IF r \in {"EAGAIN", "EOF"}
  THEN Ext(s, "avcodec_receive_packet:" \o r, s.x.codec_ctx)
  ELSE IF r = "ERR"
  THEN pd_error(Ext(s, "avcodec_receive_packet:ERR", s.x.codec_ctx), tag \o "encode")
  ELSE
  LET s1 == Acquire(ExtPkt(s, "avcodec_receive_packet:PKT", s.x.codec_ctx, k), "pkt", k)
      s2 == ExtPkt(s1, "stream_index", s1.x.audio_st, k)
      s3 == ExtPkt(s2, IF r = "PKT_WOK" THEN "av_interleaved_write_frame:OK"
                       ELSE "av_interleaved_write_frame:FAIL", s2.x.fmt_ctx, k)
      s4 == Release(ExtPkt(s3, "av_packet_unref", 0, k), "pkt", k)
  IN
  IF Len(script) > 1 /\ script[2] \in {"PKT_WOK", "PKT_WFAIL"}
  THEN drain_overwrite(Release(s1, "pkt", k), Tail(script), tag, k + 1)
  ELSE IF r = "PKT_WFAIL" THEN pd_error(s4, tag \o "write")
  ELSE drain_overwrite(s4, Tail(script), tag, k + 1)

\* Variant of the drain loop that leaves on a failed write before the unref.
RECURSIVE drain_leak(_, _, _, _)
drain_leak(s, script, tag, k) ==
  LET r == IF script = << >> THEN "EAGAIN" ELSE Head(script)
  IN
  IF r \in {"EAGAIN", "EOF"}
  THEN Ext(s, "avcodec_receive_packet:" \o r, s.x.codec_ctx)
  ELSE IF r = "ERR"
  THEN pd_error(Ext(s, "avcodec_receive_packet:ERR", s.x.codec_ctx), tag \o "encode")
  ELSE
  LET s1 == Acquire(ExtPkt(s, "avcodec_receive_packet:PKT", s.x.codec_ctx, k), "pkt", k)
      s2 == ExtPkt(s1, "stream_index", s1.x.audio_st, k)
      s3 == ExtPkt(s2, IF r = "PKT_WOK" THEN "av_interleaved_write_frame:OK"
                       ELSE "av_interleaved_write_frame:FAIL", s2.x.fmt_ctx, k)
      s4 == Release(ExtPkt(s3, "av_packet_unref", 0, k), "pkt", k)
  IN
  IF r = "PKT_WFAIL" THEN pd_error(s3, tag \o "write")
  ELSE drain_leak(s4, Tail(script), tag, k + 1)

\* Variant of the drain loop that ends on EAGAIN only and asks again after
\* an EOF.
RECURSIVE drain_past_eof(_, _, _, _)
drain_past_eof(s, script, tag, k) ==
  LET r == IF script = << >> THEN "EAGAIN" ELSE Head(script)
  IN
  IF r = "EAGAIN"
  THEN Ext(s, "avcodec_receive_packet:EAGAIN", s.x.codec_ctx)
  ELSE IF r = "EOF"
  THEN drain_past_eof(Ext(s, "avcodec_receive_packet:EOF", s.x.codec_ctx),
                      Tail(script), tag, k)
  ELSE IF r = "ERR"
  THEN pd_error(Ext(s, "avcodec_receive_packet:ERR", s.x.codec_ctx), tag \o "encode")
  ELSE
  LET s1 == Acquire(ExtPkt(s, "avcodec_receive_packet:PKT", s.x.codec_ctx, k), "pkt", k)
      s2 == ExtPkt(s1, "stream_index", s1.x.audio_st, k)
      s3 == ExtPkt(s2, IF r = "PKT_WOK" THEN "av_interleaved_write_frame:OK"
                       ELSE "av_interleaved_write_frame:FAIL", s2.x.fmt_ctx, k)
      s4 == Release(ExtPkt(s3, "av_packet_unref", 0, k), "pkt", k)
  IN
  IF r = "PKT_WFAIL" THEN pd_error(s4, tag \o "write")
  ELSE drain_past_eof(s4, Tail(script), tag, k + 1)

\* Variant of the drain loop that goes on after a failed write.
RECURSIVE drain_all(_, _, _, _)
drain_all(s, script, tag, k) ==
  LET r == IF script = << >> THEN "EAGAIN" ELSE Head(script)
  IN
  IF r \in {"EAGAIN", "EOF"}
  THEN Ext(s, "avcodec_receive_packet:" \o r, s.x.codec_ctx)
  ELSE IF r = "ERR"
  THEN pd_error(Ext(s, "avcodec_receive_packet:ERR", s.x.codec_ctx), tag \o "encode")
  ELSE
  LET s1 == Acquire(ExtPkt(s, "avcodec_receive_packet:PKT", s.x.codec_ctx, k), "pkt", k)
      s2 == ExtPkt(s1, "stream_index", s1.x.audio_st, k)
      s3 == ExtPkt(s2, IF r = "PKT_WOK" THEN "av_interleaved_write_frame:OK"
                       ELSE "av_interleaved_write_frame:FAIL", s2.x.fmt_ctx, k)
      s4 == Release(ExtPkt(s3, "av_packet_unref", 0, k), "pkt", k)
      s5 == IF r = "PKT_WFAIL" THEN pd_error(s4, tag \o "write") ELSE s4
  IN
  drain_all(s5, Tail(script), tag, k + 1)

RECURSIVE drain_packets(_, _, _, _)
drain_packets(s, script, tag, k) ==
  LET r == IF script = << >> THEN "EAGAIN" ELSE Head(script)
  IN
  IF r \in {"EAGAIN", "EOF"}
  THEN Ext(s, "avcodec_receive_packet:" \o r, s.x.codec_ctx)
  ELSE IF r = "ERR"
  THEN pd_error(Ext(s, "avcodec_receive_packet:ERR", s.x.codec_ctx), tag \o "encode")
  ELSE
  LET s1 == Acquire(ExtPkt(s, "avcodec_receive_packet:PKT", s.x.codec_ctx, k), "pkt", k)
      s2 == ExtPkt(s1, "stream_index", s1.x.audio_st, k)
      s3 == ExtPkt(s2, IF r = "PKT_WOK" THEN "av_interleaved_write_frame:OK"
                       ELSE "av_interleaved_write_frame:FAIL", s2.x.fmt_ctx, k)
      s4 == Release(ExtPkt(s3, "av_packet_unref", 0, k), "pkt", k)
  IN
  IF r = "PKT_WFAIL" THEN pd_error(s4, tag \o "write")
  ELSE drain_packets(s4, Tail(script), tag, k + 1)

(***************************************************************************)
(* The sample loop.  A sample is clamped to [-1.0, 1.0]; rtmpstreamer~     *)
(* stores the float, rtspstreamer~ stores (int16_t)(sample * 32767.0f),    *)
(* and the conversion of a float to an integer drops the fraction.  The    *)
(* product of a clamped sample is within the range of int16_t.  Sample i   *)
(* of the block goes to place i of the frame's buffer for every i < n,     *)
(* whatever the buffer's capacity: fr.data holds the n values stored, the  *)
(* ones beyond fr.cap included.                                            *)
(***************************************************************************)
\* Variant of the clamp that forgets the lower limit.
clamp_upper(v) == IF v > One THEN One ELSE v

clamp(v) ==
  LET low == IF v < -One THEN -One ELSE v
  IN IF low > One THEN One ELSE low

float_to_int(a, b) == IF a >= 0 THEN a \div b ELSE -((-a) \div b)

to_int16(v) == float_to_int(v * Int16Scale, One)

fill_frame(in, n, tag) ==
  [i \in 1 .. n |-> IF tag = "rtsp:" THEN to_int16(clamp(in[i])) ELSE clamp(in[i])]

(***************************************************************************)
(* The body of perform once it runs: fill the frame, stamp and advance the *)
(* clock, submit, drain.                                                   *)
(***************************************************************************)
\* Variant of the body that advances the clock only for a frame the encoder
\* accepted.
encode_block_accepted(s, in, n, sendOk, script, tag) ==
  LET s1 == Ext(s, "frame_data", s.x.frame)
      s2 == [s1 EXCEPT !.fr.data = fill_frame(in, n, tag),
                       !.fr.nb_samples = n,
                       !.fr.pts = s1.x.pts]
      s3 == Ext(s2, "avcodec_send_frame", s2.x.codec_ctx)
  IN
  IF ~sendOk THEN pd_error(s3, tag \o "send")
  ELSE drain_packets([s3 EXCEPT !.x.pts = s3.x.pts + n], script, tag, 1)

encode_block(s, in, n, sendOk, script, tag) ==
  LET s1 == Ext(s, "frame_data", s.x.frame)
      s2 == [s1 EXCEPT !.fr.data = fill_frame(in, n, tag),
                       !.fr.nb_samples = n,
                       !.fr.pts = s1.x.pts,
                       !.x.pts = s1.x.pts + n]
      s3 == Ext(s2, "avcodec_send_frame", s2.x.codec_ctx)
  IN
  IF ~sendOk THEN pd_error(s3, tag \o "send")
  ELSE drain_packets(s3, script, tag, 1)

(***************************************************************************)
(* Reading the log of a handler.                                           *)
(***************************************************************************)
Names(l) == {l[i][1] : i \in DOMAIN l}

Count(l, name) == Cardinality({i \in DOMAIN l : l[i][1] = name})

AcquireCalls ==
  {"avformat_network_init", "avformat_alloc_output_context2", "avcodec_find_encoder",
   "avformat_new_stream", "avcodec_alloc_context3", "av_channel_layout_copy",
   "avcodec_open2", "avcodec_parameters_from_context", "avio_open",
   "avformat_write_header", "av_frame_alloc", "av_channel_layout_copy_frame",
   "av_frame_get_buffer"}

ReleaseCalls ==
  {"av_write_trailer", "avio_closep", "avformat_free_context", "avcodec_free_context",
   "av_frame_free"}

BlockErrors ==
  {"pd_error:rtmp:send", "pd_error:rtmp:encode", "pd_error:rtmp:write",
   "pd_error:rtsp:send", "pd_error:rtsp:encode", "pd_error:rtsp:write"}

BlockFailed(l) == Names(l) \cap BlockErrors # {}

\* Every diagnostic a handler reports with pd_error.
Diagnostics ==
  BlockErrors \cup
  {"pd_error:alloc_output", "pd_error:find_encoder", "pd_error:new_stream",
   "pd_error:alloc_codec", "pd_error:channel_layout", "pd_error:open_codec",
   "pd_error:copy_params", "pd_error:avio_open", "pd_error:write_header",
   "pd_error:frame_alloc", "pd_error:frame_layout", "pd_error:get_buffer",
   "pd_error:init_failed", "pd_error:runtime_url_not_supported"}

\* Index of the first acquisition call of a log, Len + 1 when it has none.
FirstAcquire(l) ==
  LET hits == {i \in DOMAIN l : l[i][1] \in AcquireCalls}
  IN IF hits = {} THEN Len(l) + 1
     ELSE CHOOSE i \in hits : \A j \in hits : i <= j

\* Variant of perform without the activity test.
perform_unguarded(s, in, n, sendOk, script) ==
  encode_block(s, in, n, sendOk, script, "rtmp:")

\* Variant of perform that gives the session up on a failed block.
perform_failstop(s, in, n, sendOk, script) ==
  IF s.x.streaming_active # 0
  THEN LET r == encode_block(s, in, n, sendOk, script, "rtmp:")
       IN IF BlockFailed(r.log) THEN [r EXCEPT !.x.streaming_active = 0] ELSE r
  ELSE s

\* Variant of perform that tries to connect again when the session is idle.
perform_retry(s, in, n, sendOk, script) ==
  IF s.x.streaming_active # 0
  THEN encode_block(s, in, n, sendOk, script, "rtmp:")
  ELSE IF s.x.url # << >> /\ Len(s.x.url[1]) > 0
  THEN LET r == initialize_streaming(s, 0, 0, FALSE)
       IN IF r.ret = 0 THEN [r.s EXCEPT !.x.streaming_active = 1] ELSE r.s
  ELSE s

rtmpstreamer_tilde_perform(s, in, n, sendOk, script) ==
  IF s.x.streaming_active # 0
  THEN encode_block(s, in, n, sendOk, script, "rtmp:")
  ELSE s

(***************************************************************************)
(* rtmpstreamer_tilde_new: fields reset, URL kept when valid; no connect.  *)
(***************************************************************************)
rtmpstreamer_tilde_new(s, u) ==
  LET s1 == [s EXCEPT !.x = x0]
  IN IF Len(u) > 0 /\ is_valid_rtmp_url(u)
     THEN post([s1 EXCEPT !.x.url = <<u>>], "valid_url_at_creation")
     ELSE post(s1, "non_streaming_mode")

(***************************************************************************)
(* rtmpstreamer_tilde_symbol: tear down when active, store the URL, then   *)
(* connect when the URL is non-empty.                                      *)
(***************************************************************************)
\* Variant of the handler that raises the flag whatever the attempt returned.
symbol_always_active(s, u, f, fs, nf, trOk) ==
  LET s1 == IF s.x.streaming_active # 0
            THEN [cleanup_streaming(s, nf, trOk) EXCEPT !.x.streaming_active = 0]
            ELSE s
      s2 == [s1 EXCEPT !.x.url = <<u>>]
  IN
  IF s2.x.url # << >> /\ Len(s2.x.url[1]) > 0
  THEN LET r == initialize_streaming(post(s2, "attempting"), f, fs, nf)
       IN post([r.s EXCEPT !.x.streaming_active = 1], "streaming")
  ELSE post(s2, "invalid_or_empty_url")

rtmpstreamer_tilde_symbol(s, u, f, fs, nf, trOk) ==
  LET s1 == IF s.x.streaming_active # 0
            THEN [cleanup_streaming(s, nf, trOk) EXCEPT !.x.streaming_active = 0]
            ELSE s
      s2 == [s1 EXCEPT !.x.url = <<u>>]
  IN
  IF s2.x.url # << >> /\ Len(s2.x.url[1]) > 0
  THEN LET s3 == post(s2, "attempting")
           r == initialize_streaming(s3, f, fs, nf)
       IN IF r.ret = 0
          THEN post([r.s EXCEPT !.x.streaming_active = 1], "streaming")
          ELSE pd_error(r.s, "init_failed")
  ELSE post(s2, "invalid_or_empty_url")

(***************************************************************************)
(* rtmpstreamer_tilde_free.                                                *)
(***************************************************************************)
rtmpstreamer_tilde_free(s, nf, trOk) ==
  IF s.x.streaming_active # 0 THEN cleanup_streaming(s, nf, trOk) ELSE s

(***************************************************************************)
(* rtspstreamer_tilde_new (rtspstreamer.c): the connect sequence runs in   *)
(* the constructor; every failure path is a bare `return NULL`.            *)
(* Sub-steps:                                                              *)
(*  1 avformat_alloc_output_context2   2 avcodec_find_encoder              *)
(*  3 avformat_new_stream              4 avcodec_alloc_context3            *)
(*  5 av_channel_layout_copy (codec)   6 avcodec_parameters_from_context   *)
(*  7 avio_open (unless AVFMT_NOFILE)  8 avformat_write_header             *)
(*  9 av_frame_alloc                  10 av_channel_layout_copy (frame)    *)
(* 11 av_frame_get_buffer                                                  *)
(* ret = 0: the object is returned; ret = -1: NULL is returned.            *)
(***************************************************************************)
rtspstreamer_tilde_new(s, u, f, fs, nf) ==
  LET id == s.heap.nextId
      i0 == [s EXCEPT !.x = [x0 EXCEPT !.url = <<u>>]]
      a0 == NewAttempt(i0)
      c1 == Ext(a0, "avformat_alloc_output_context2", id)
  IN
  IF f = 1 THEN Ret(pd_error([c1 EXCEPT !.x.fmt_ctx = NULL], "alloc_output"), -1)
  ELSE
  LET a1 == Acquire([c1 EXCEPT !.x.fmt_ctx = id], "fmt", id)
      c2 == Ext(a1, "avcodec_find_encoder", 0)
  IN
  IF f = 2 THEN Ret(pd_error(c2, "find_encoder"), -1)
  ELSE
  LET c3 == Ext(c2, "avformat_new_stream", id)
  IN
  IF f = 3 THEN Ret(pd_error([c3 EXCEPT !.x.audio_st = NULL], "new_stream"), -1)
  ELSE
  LET a3 == [c3 EXCEPT !.x.audio_st = id]
      c4 == Ext(a3, "avcodec_alloc_context3", id)
  IN
  IF f = 4 THEN Ret(pd_error([c4 EXCEPT !.x.codec_ctx = NULL], "alloc_codec"), -1)
  ELSE
  LET a4 == Acquire([c4 EXCEPT !.x.codec_ctx = id], "codec", id)
      c5 == Ext(a4, "av_channel_layout_copy", id)
  IN
  IF f = 5 THEN Ret(pd_error(c5, "channel_layout"), -1)
  ELSE
  LET c6 == Ext(c5, "avcodec_parameters_from_context", id)
  IN
  IF f = 6 THEN Ret(pd_error(c6, "copy_params"), -1)
  ELSE
  LET c7 == IF nf THEN c6 ELSE Ext(c6, "avio_open", id)
  IN
  IF ~nf /\ f = 7 THEN Ret(pd_error(c7, "avio_open"), -1)
  ELSE
  LET a7 == IF nf THEN c7 ELSE Acquire(c7, "pb", id)
      c8 == Ext(a7, "avformat_write_header", id)
  IN
  IF f = 8 THEN Ret(pd_error(c8, "write_header"), -1)
  ELSE
  LET c9 == Ext(c8, "av_frame_alloc", id)
  IN
  IF f = 9 THEN Ret(pd_error([c9 EXCEPT !.x.frame = NULL], "frame_alloc"), -1)
  ELSE
  LET a9 == Acquire([c9 EXCEPT !.x.frame = id], "frame", id)
      n0 == [a9 EXCEPT !.fr = [nb_samples |-> fs, pts |-> 0, cap |-> 0, data |-> << >>]]
      n1 == IF n0.fr.nb_samples = 0
            THEN [n0 EXCEPT !.fr.nb_samples = DefaultFrameSize]
            ELSE n0
      c10 == Ext(n1, "av_channel_layout_copy_frame", id)
  IN
  IF f = 10 THEN Ret(pd_error(c10, "frame_layout"), -1)
  ELSE
  LET c11 == Ext(c10, "av_frame_get_buffer", id)
  IN
  IF f = 11 THEN Ret(pd_error(c11, "get_buffer"), -1)
  ELSE Ret([c11 EXCEPT !.fr.cap = c11.fr.nb_samples], 0)

(***************************************************************************)
(* rtspstreamer_tilde_symbol: stores the URL and reports.                  *)
(***************************************************************************)
\* Variant of the handler that closes the open session for the new URL.
rtsp_symbol_closing(s, u) ==
  LET s1 == Release(Ext(s, "avformat_free_context", s.x.fmt_ctx), "fmt", s.x.fmt_ctx)
  IN [s1 EXCEPT !.x.url = <<u>>, !.x.fmt_ctx = NULL]

rtspstreamer_tilde_symbol(s, u) ==
  pd_error([s EXCEPT !.x.url = <<u>>], "runtime_url_not_supported")

(***************************************************************************)
(* rtspstreamer_tilde_perform: no activity flag; the block is always       *)
(* encoded.                                                                *)
(***************************************************************************)
rtspstreamer_tilde_perform(s, in, n, sendOk, script) ==
  encode_block(s, in, n, sendOk, script, "rtsp:")

(***************************************************************************)
(* rtspstreamer_tilde_free.  avformat_free_context takes the pointer by    *)
(* value (x.fmt_ctx keeps its value); avcodec_free_context and             *)
(* av_frame_free take its address and clear it.                            *)
(***************************************************************************)
rtspstreamer_tilde_free(s, nf, trOk) ==
  LET s1 == IF s.x.fmt_ctx # NULL
            THEN LET t1 == av_write_trailer(s, trOk)
                     t2 == IF nf THEN t1
                           ELSE Release(Ext(t1, "avio_closep", s.x.fmt_ctx),
                                        "pb", s.x.fmt_ctx)
                 IN Release(Ext(t2, "avformat_free_context", s.x.fmt_ctx),
                            "fmt", s.x.fmt_ctx)
            ELSE s
      s2 == IF s1.x.codec_ctx # NULL
            THEN LET t1 == Ext(s1, "av_channel_layout_uninit", s1.x.codec_ctx)
                 IN [Release(Ext(t1, "avcodec_free_context", s1.x.codec_ctx),
                             "codec", s1.x.codec_ctx)
                       EXCEPT !.x.codec_ctx = NULL]
            ELSE s1
      s3 == IF s2.x.frame # NULL
            THEN LET t1 == Ext(s2, "av_channel_layout_uninit_frame", s2.x.frame)
                 IN [Release(Ext(t1, "av_frame_free", s2.x.frame), "frame", s2.x.frame)
                       EXCEPT !.x.frame = NULL]
            ELSE s2
  IN Ext(s3, "avformat_network_deinit", 0)

(***************************************************************************)
(* The state machine.  obj is the life of the Pd object: "none" before the *)
(* constructor, "alive" once it returned the object, "nocreate" when it    *)
(* returned NULL, "freed" after the destructor.  Each action is one whole  *)
(* host call; `log` holds the calls of the latest one and `last` what it   *)
(* was: the handler, whether the session was streaming before it, the     *)
(* block length, and the outcome of its connect                            *)
(* attempt ("none" when it made none) with the failing sub-step.  `played` *)
(* is a history variable: the lengths of the blocks encoded since the      *)
(* latest successful connect, summed.                                      *)
(***************************************************************************)
Cur == [x |-> x, fr |-> fr, heap |-> heap, log |-> << >>]

Commit(s) == x' = s.x /\ fr' = s.fr /\ heap' = s.heap /\ log' = s.log

Streaming ==
  obj = "alive" /\ (variant = "rtmp" => x.streaming_active # 0)

AvioStep == IF variant = "rtmp" THEN 8 ELSE 7

CanFail(f) == f \in FailSteps /\ ~(nofile /\ f = AvioStep)

\* The frame size is read only by an attempt that gets as far as the frame.
FrameSizeRead(f, fs) == fs = 0 \/ f \in {0, 11}

\* A symbol call with an empty URL makes no connect attempt.
Attempts(u, f, fs) == Len(u) > 0 \/ (f = 0 /\ fs = 0)

\* The trailer is written only by a handler that finds a container to close.
TrailerWritten(trOk) == trOk \/ (Streaming /\ x.fmt_ctx # NULL)

\* A failed submission never reaches the drain loop, and a block that is not
\* encoded asks the encoder nothing.
Answers(sendOk, script) ==
  /\ sendOk \/ script = << >>
  /\ Streaming \/ (sendOk /\ script = << >>)

Last(op, conn, f, n) ==
  [op |-> op, was |-> Streaming, conn |-> conn, fail |-> f,
   n |-> n, in |-> << >>]

\* The blocks of n samples over a set of sample values; a silent block.
Blocks(S, n) == [1 .. n -> S]

Silence(n) == [i \in 1 .. n |-> 0]

\* Where the two handlers stand when they run as two processes (used by the
\* last specification only; the host calls above run one at a time and
\* leave it alone).
\*   p, q    the statement the block (perform) and the symbol handler are at
\*   n       the length of the block in flight
\*   k       the packets the block in flight has drained
\*   samples the frame whose buffer the local `samples` points into
\*   ret     what initialize_streaming returned to the symbol handler
\*   seen    the value of streaming_active the block in flight read
\*   torn    the symbol handler had released a handle and not yet cleared
\*           the flag at that read, or has released or cleared one since
\*   hazard  "null" / "released": the block dereferenced such a handle
\*   at      the handle it was
pc0 ==
  [p |-> "idle", q |-> "idle", n |-> 0, k |-> 0, samples |-> NULL, ret |-> 0,
   seen |-> 0, torn |-> FALSE, hazard |-> "none", at |-> "none"]

Init ==
  /\ variant \in {"rtmp", "rtsp"}
  /\ nofile \in BOOLEAN
  /\ obj = "none"
  /\ x = x0
  /\ fr = fr0
  /\ heap = heap0
  /\ log = << >>
  /\ last = [op |-> "none", was |-> FALSE, conn |-> "none", fail |-> 0,
             n |-> 0, in |-> << >>]
  /\ played = 0
  /\ pc = pc0

RtmpNew ==
  /\ variant = "rtmp" /\ obj = "none"
  /\ \E u \in Urls :
       /\ Commit(rtmpstreamer_tilde_new(Cur, u))
       /\ last' = Last("new", "none", 0, 0)
  /\ obj' = "alive"
  /\ UNCHANGED <<pc, variant, nofile, played>>

RtmpSymbol ==
  /\ variant = "rtmp" /\ obj = "alive"
  /\ heap.nextId <= MaxAttempts
  /\ \E u \in SymbolUrls, f \in FailSteps, fs \in FrameSizes, trOk \in BOOLEAN :
       /\ CanFail(f) /\ FrameSizeRead(f, fs) /\ TrailerWritten(trOk)
       /\ Attempts(u, f, fs)
       /\ LET s == rtmpstreamer_tilde_symbol(Cur, u, f, fs, nofile, trOk)
              tried == s.heap.nextId # heap.nextId
          IN /\ Commit(s)
             /\ last' = Last("symbol",
                             IF ~tried THEN "none"
                             ELSE IF s.x.streaming_active # 0 THEN "ok" ELSE "fail",
                             IF tried THEN f ELSE 0, 0)
  /\ played' = 0
  /\ UNCHANGED <<pc, variant, nofile, obj>>

RtmpPerform ==
  /\ variant = "rtmp" /\ obj = "alive"
  /\ \E n \in BlockLens, sendOk \in BOOLEAN, script \in Scripts :
       /\ x.pts + n <= MaxPts /\ Answers(sendOk, script)
       /\ Commit(rtmpstreamer_tilde_perform(Cur, Silence(n), n, sendOk, script))
       /\ last' = [Last("perform", "none", 0, n) EXCEPT !.in = Silence(n)]
       /\ played' = IF Streaming THEN played + n ELSE played
  /\ UNCHANGED <<pc, variant, nofile, obj>>

RtmpFree ==
  /\ variant = "rtmp" /\ obj = "alive"
  /\ \E trOk \in BOOLEAN :
       /\ TrailerWritten(trOk)
       /\ Commit(rtmpstreamer_tilde_free(Cur, nofile, trOk))
  /\ last' = Last("free", "none", 0, 0)
  /\ obj' = "freed"
  /\ UNCHANGED <<pc, variant, nofile, played>>

RtspNew ==
  /\ variant = "rtsp" /\ obj = "none"
  /\ \E u \in Urls, f \in FailSteps, fs \in FrameSizes :
       /\ CanFail(f) /\ FrameSizeRead(f, fs)
       /\ LET r == rtspstreamer_tilde_new(Cur, u, f, fs, nofile)
          IN /\ Commit(r.s)
             /\ obj' = IF r.ret = 0 THEN "alive" ELSE "nocreate"
             /\ last' = Last("new", IF r.ret = 0 THEN "ok" ELSE "fail", f, 0)
  /\ UNCHANGED <<pc, variant, nofile, played>>

RtspSymbol ==
  /\ variant = "rtsp" /\ obj = "alive"
  /\ \E u \in SymbolUrls :
       /\ Commit(rtspstreamer_tilde_symbol(Cur, u))
       /\ last' = Last("symbol", "none", 0, 0)
  /\ UNCHANGED <<pc, variant, nofile, obj, played>>

RtspPerform ==
  /\ variant = "rtsp" /\ obj = "alive"
  /\ \E n \in BlockLens, sendOk \in BOOLEAN, script \in Scripts :
       /\ x.pts + n <= MaxPts /\ Answers(sendOk, script)
       /\ Commit(rtspstreamer_tilde_perform(Cur, Silence(n), n, sendOk, script))
       /\ last' = [Last("perform", "none", 0, n) EXCEPT !.in = Silence(n)]
       /\ played' = IF Streaming THEN played + n ELSE played
  /\ UNCHANGED <<pc, variant, nofile, obj>>

RtspFree ==
  /\ variant = "rtsp" /\ obj = "alive"
  /\ \E trOk \in BOOLEAN :
       /\ TrailerWritten(trOk)
       /\ Commit(rtspstreamer_tilde_free(Cur, nofile, trOk))
  /\ last' = Last("free", "none", 0, 0)
  /\ obj' = "freed"
  /\ UNCHANGED <<pc, variant, nofile, played>>

Next ==
  \/ RtmpNew \/ RtmpSymbol \/ RtmpPerform \/ RtmpFree
  \/ RtspNew \/ RtspSymbol \/ RtspPerform \/ RtspFree

Spec == Init /\ [][Next]_vars

(***************************************************************************)
(* A second specification applies cleanup_streaming directly (the teardown *)
(* routine as a function of its own) to every state the push-style object  *)
(* can be in, any number of times.                                         *)
(***************************************************************************)
Teardown ==
  /\ variant = "rtmp" /\ obj = "alive"
  /\ \E trOk \in BOOLEAN :
       /\ trOk \/ x.fmt_ctx # NULL
       /\ Commit(cleanup_streaming(Cur, nofile, trOk))
  /\ last' = Last("teardown", "none", 0, 0)
  /\ UNCHANGED <<pc, variant, nofile, obj, played>>

NextTeardown == Next \/ Teardown

SpecTeardown == Init /\ [][NextTeardown]_vars

(***************************************************************************)
(* The sample loop on its own: a session that streams after its first      *)
(* connect attempt (the symbol handler for rtmpstreamer~, the constructor  *)
(* for rtspstreamer~) is fed blocks of every sample value.  The samples do  *)
(* not change what the encoder and the transport answer: the encoder has   *)
(* no packet ready or has one, which is written.                           *)
(***************************************************************************)
SampleScripts == {<< >>, <<"PKT_WOK">>}

Connected(v, nf, fs) ==
  LET c == [x |-> x0, fr |-> fr0, heap |-> heap0, log |-> << >>]
  IN IF v = "rtmp"
     THEN rtmpstreamer_tilde_symbol(rtmpstreamer_tilde_new(c, UrlEmpty), UrlA, 0, fs, nf, TRUE)
     ELSE rtspstreamer_tilde_new(c, UrlA, 0, fs, nf).s

InitSamples ==
  /\ variant \in {"rtmp", "rtsp"}
  /\ nofile \in BOOLEAN
  /\ obj = "alive"
  /\ \E fs \in FrameSizes :
       LET s == Connected(variant, nofile, fs)
       IN x = s.x /\ fr = s.fr /\ heap = s.heap /\ log = s.log
  /\ last = [op |-> IF variant = "rtmp" THEN "symbol" ELSE "new", was |-> FALSE,
             conn |-> "ok", fail |-> 0, n |-> 0, in |-> << >>]
  /\ played = 0
  /\ pc = pc0

RtmpPerformSamples ==
  /\ variant = "rtmp" /\ obj = "alive"
  /\ \E n \in BlockLens, sendOk \in BOOLEAN, script \in SampleScripts :
       /\ x.pts + n <= MaxPts /\ Answers(sendOk, script)
       /\ \E in \in Blocks(Samples, n) :
            /\ Commit(rtmpstreamer_tilde_perform(Cur, in, n, sendOk, script))
            /\ last' = [Last("perform", "none", 0, n) EXCEPT !.in = in]
       /\ played' = IF Streaming THEN played + n ELSE played
  /\ UNCHANGED <<pc, variant, nofile, obj>>

RtspPerformSamples ==
  /\ variant = "rtsp" /\ obj = "alive"
  /\ \E n \in BlockLens, sendOk \in BOOLEAN, script \in SampleScripts :
       /\ x.pts + n <= MaxPts /\ Answers(sendOk, script)
       /\ \E in \in Blocks(Samples, n) :
            /\ Commit(rtspstreamer_tilde_perform(Cur, in, n, sendOk, script))
            /\ last' = [Last("perform", "none", 0, n) EXCEPT !.in = in]
       /\ played' = IF Streaming THEN played + n ELSE played
  /\ UNCHANGED <<pc, variant, nofile, obj>>

NextSamples == RtmpPerformSamples \/ RtspPerformSamples

SpecSamples == InitSamples /\ [][NextSamples]_vars

(***************************************************************************)
(* The push-style object on a host that does not serialize its calls: the  *)
(* symbol handler and perform run as two processes, one statement at a     *)
(* time, on a session that streams after its first connect attempt.        *)
(* cleanup_streaming is inlined in the symbol handler statement by         *)
(* statement; initialize_streaming is taken in one step (the flag is 0     *)
(* while it runs).  A process that dereferenced a null or released handle  *)
(* has undefined behaviour: the hazard is recorded and the process stops.  *)
(* The log of whole calls is not kept here.                                *)
(***************************************************************************)
\* What dereferencing handle h of a kind of library object does.
Deref(kind, h) ==
  IF h = NULL THEN "null"
  ELSE IF <<kind, h>> \in heap.live THEN "none" ELSE "released"

\* Variant of the activity test that lets every block in.
perform_enters_always(active) == TRUE

\* Line 70: `if (x->streaming_active)`.
perform_enters(active) == active # 0

Crash(hz, at) ==
  /\ pc' = [pc EXCEPT !.p = "crashed", !.hazard = hz, !.at = at]
  /\ UNCHANGED <<x, fr, heap>>

\* What no statement of the two handlers changes.
RaceFrame == UNCHANGED <<variant, nofile, obj, log, last, played>>

\* The symbol handler stands between its first release and the statement
\* that clears the flag.
TearingDown == pc.q \in {"fmt_null", "codec", "frame", "clear_flag"}

PerformEnter ==
  /\ pc.p = "idle"
  /\ \E n \in BlockLens :
       /\ x.pts + n <= MaxPts
       /\ pc' = IF perform_enters(x.streaming_active)
                THEN [pc EXCEPT !.p = "samples", !.n = n, !.k = 0,
                                !.seen = x.streaming_active, !.torn = TearingDown]
                ELSE [pc EXCEPT !.seen = x.streaming_active, !.torn = TearingDown]
  /\ UNCHANGED <<x, fr, heap>>
  /\ RaceFrame

\* Line 75: samples = x->frame->data[0].
PerformSamples ==
  /\ pc.p = "samples"
  /\ IF Deref("frame", x.frame) # "none"
     THEN Crash(Deref("frame", x.frame), "frame")
     ELSE /\ pc' = [pc EXCEPT !.p = "loop", !.samples = x.frame]
          /\ UNCHANGED <<x, fr, heap>>
  /\ RaceFrame

\* Lines 77-85: the sample loop stores through the local `samples`.
PerformLoop ==
  /\ pc.p = "loop"
  /\ IF Deref("frame", pc.samples) # "none"
     THEN Crash(Deref("frame", pc.samples), "samples")
     ELSE /\ pc' = [pc EXCEPT !.p = "stamp"]
          /\ fr' = [fr EXCEPT !.data = fill_frame(Silence(pc.n), pc.n, "rtmp:")]
          /\ UNCHANGED <<x, heap>>
  /\ RaceFrame

\* Lines 87-89: nb_samples, pts and the clock, each through x->frame.
PerformStamp ==
  /\ pc.p = "stamp"
  /\ IF Deref("frame", x.frame) # "none"
     THEN Crash(Deref("frame", x.frame), "frame")
     ELSE /\ pc' = [pc EXCEPT !.p = "send"]
          /\ fr' = [fr EXCEPT !.nb_samples = pc.n, !.pts = x.pts]
          /\ x' = [x EXCEPT !.pts = @ + pc.n]
          /\ UNCHANGED heap
  /\ RaceFrame

\* Line 92: avcodec_send_frame(x->codec_ctx, x->frame); lines 93-96.
PerformSend ==
  /\ pc.p = "send"
  /\ IF Deref("codec", x.codec_ctx) # "none"
     THEN Crash(Deref("codec", x.codec_ctx), "codec")
     ELSE IF Deref("frame", x.frame) # "none"
     THEN Crash(Deref("frame", x.frame), "frame")
     ELSE /\ \E sendOk \in BOOLEAN :
               pc' = [pc EXCEPT !.p = IF sendOk THEN "receive" ELSE "idle"]
          /\ UNCHANGED <<x, fr, heap>>
  /\ RaceFrame

\* Line 102: avcodec_receive_packet(x->codec_ctx, &pkt); lines 103-108.
PerformReceive ==
  /\ pc.p = "receive"
  /\ IF Deref("codec", x.codec_ctx) # "none"
     THEN Crash(Deref("codec", x.codec_ctx), "codec")
     ELSE /\ \E r \in {"PKT", "EAGAIN", "EOF", "ERR"} :
               /\ r = "PKT" => pc.k < MaxScript
               /\ pc' = IF r = "PKT"
                        THEN [pc EXCEPT !.p = "write", !.k = @ + 1]
                        ELSE [pc EXCEPT !.p = "idle"]
          /\ UNCHANGED <<x, fr, heap>>
  /\ RaceFrame

\* Lines 111-119: x->audio_st->index (the stream belongs to the container),
\* av_interleaved_write_frame(x->fmt_ctx, &pkt), av_packet_unref.
PerformWrite ==
  /\ pc.p = "write"
  /\ IF Deref("fmt", x.audio_st) # "none"
     THEN Crash(Deref("fmt", x.audio_st), "stream")
     ELSE IF Deref("fmt", x.fmt_ctx) # "none"
     THEN Crash(Deref("fmt", x.fmt_ctx), "fmt")
     ELSE /\ \E writeOk \in BOOLEAN :
               pc' = [pc EXCEPT !.p = IF writeOk THEN "receive" ELSE "idle"]
          /\ UNCHANGED <<x, fr, heap>>
  /\ RaceFrame

\* Line 166: `if (x->streaming_active)`; line 321: `if (x->fmt_ctx)`.
SymbolEnter ==
  /\ pc.q = "idle"
  /\ heap.nextId <= MaxAttempts
  /\ pc' = [pc EXCEPT !.q = IF x.streaming_active = 0 THEN "url"
                            ELSE IF x.fmt_ctx # NULL THEN "trailer" ELSE "codec"]
  /\ UNCHANGED <<x, fr, heap>>
  /\ RaceFrame

\* Lines 322-325: av_write_trailer, avio_closep unless AVFMT_NOFILE.
SymbolTrailer ==
  /\ pc.q = "trailer"
  /\ pc' = [pc EXCEPT !.q = "free_context"]
  /\ heap' = IF nofile THEN heap ELSE Release(Cur, "pb", x.fmt_ctx).heap
  /\ UNCHANGED <<x, fr>>
  /\ RaceFrame

\* Line 326: avformat_free_context(x->fmt_ctx).
SymbolFreeContext ==
  /\ pc.q = "free_context"
  /\ pc' = [pc EXCEPT !.q = "fmt_null", !.torn = TRUE]
  /\ heap' = Release(Cur, "fmt", x.fmt_ctx).heap
  /\ UNCHANGED <<x, fr>>
  /\ RaceFrame

\* Line 327: x->fmt_ctx = NULL.
SymbolFmtNull ==
  /\ pc.q = "fmt_null"
  /\ pc' = [pc EXCEPT !.q = "codec", !.torn = TRUE]
  /\ x' = [x EXCEPT !.fmt_ctx = NULL]
  /\ UNCHANGED <<fr, heap>>
  /\ RaceFrame

\* Lines 329-332: avcodec_free_context(&x->codec_ctx), which clears it.
SymbolCodec ==
  /\ pc.q = "codec"
  /\ IF x.codec_ctx # NULL
     THEN /\ heap' = Release(Cur, "codec", x.codec_ctx).heap
          /\ x' = [x EXCEPT !.codec_ctx = NULL]
          /\ pc' = [pc EXCEPT !.q = "frame", !.torn = TRUE]
     ELSE /\ pc' = [pc EXCEPT !.q = "frame"]
          /\ UNCHANGED <<x, heap>>
  /\ UNCHANGED fr
  /\ RaceFrame

\* Lines 333-336: av_frame_free(&x->frame), which clears it.
SymbolFrame ==
  /\ pc.q = "frame"
  /\ IF x.frame # NULL
     THEN /\ heap' = Release(Cur, "frame", x.frame).heap
          /\ x' = [x EXCEPT !.frame = NULL]
          /\ pc' = [pc EXCEPT !.q = "clear_flag", !.torn = TRUE]
     ELSE /\ pc' = [pc EXCEPT !.q = "clear_flag"]
          /\ UNCHANGED <<x, heap>>
  /\ UNCHANGED fr
  /\ RaceFrame

\* Line 168: x->streaming_active = 0, after avformat_network_deinit (line 337).
SymbolClearFlag ==
  /\ pc.q = "clear_flag"
  /\ pc' = [pc EXCEPT !.q = "url"]
  /\ x' = [x EXCEPT !.streaming_active = 0]
  /\ UNCHANGED <<fr, heap>>
  /\ RaceFrame

\* Lines 172-176 and 180-185: the URL is stored and, when it is not empty,
\* one connect attempt is made.
SymbolUrl ==
  /\ pc.q = "url"
  /\ \E u \in SymbolUrls, f \in FailSteps, fs \in FrameSizes :
       /\ CanFail(f) /\ FrameSizeRead(f, fs) /\ Attempts(u, f, fs)
       /\ LET s == [Cur EXCEPT !.x.url = <<u>>]
              r == IF Len(u) > 0 THEN initialize_streaming(s, f, fs, nofile)
                   ELSE Ret(s, -1)
          IN /\ x' = r.s.x /\ fr' = r.s.fr /\ heap' = r.s.heap
             /\ pc' = [pc EXCEPT !.q = IF r.ret = 0 THEN "set_flag" ELSE "idle",
                                 !.ret = r.ret]
  /\ RaceFrame

\* Line 177: x->streaming_active = 1.
SymbolSetFlag ==
  /\ pc.q = "set_flag"
  /\ pc' = [pc EXCEPT !.q = "idle"]
  /\ x' = [x EXCEPT !.streaming_active = 1]
  /\ UNCHANGED <<fr, heap>>
  /\ RaceFrame

InitRace ==
  /\ variant = "rtmp"
  /\ nofile \in BOOLEAN
  /\ obj = "alive"
  /\ \E fs \in FrameSizes :
       LET s == Connected("rtmp", nofile, fs)
       IN x = s.x /\ fr = s.fr /\ heap = s.heap
  /\ log = << >>
  /\ last = [op |-> "symbol", was |-> FALSE, conn |-> "ok", fail |-> 0,
             n |-> 0, in |-> << >>]
  /\ played = 0
  /\ pc = pc0

NextRace ==
  \/ PerformEnter \/ PerformSamples \/ PerformLoop \/ PerformStamp
  \/ PerformSend \/ PerformReceive \/ PerformWrite
  \/ SymbolEnter \/ SymbolTrailer \/ SymbolFreeContext \/ SymbolFmtNull
  \/ SymbolCodec \/ SymbolFrame \/ SymbolClearFlag \/ SymbolUrl
  \/ SymbolSetFlag

SpecRace == InitRace /\ [][NextRace]_vars

TypeOK ==
  /\ obj \in {"none", "alive", "nocreate", "freed"}
  /\ x.pts \in 0 .. MaxPts
  /\ x.streaming_active \in {0, 1}
  /\ heap.nextId \in 1 .. (MaxAttempts + 1)

(***************************************************************************)
(* Properties.                                                             *)
(***************************************************************************)
HandlesNull == x.fmt_ctx = NULL /\ x.codec_ctx = NULL /\ x.frame = NULL

\* C1: no partial acquisition.  When the handler that ran a connect attempt
\* returns after one of its sub-steps failed, the session is not streaming,
\* the container, encoder and frame handles are null and no library object
\* is still held.
NoPartialAcquisition ==
  last.conn = "fail" => (~Streaming /\ HandlesNull /\ heap.live = {})

\* C2: reconfiguration safety.  A symbol call on a streaming push session
\* makes each teardown call (trailer, transport close, container, encoder and
\* frame release) exactly once and before its first acquisition call; and at
\* no time are library objects of two connect attempts held together.
ReconfigurationSafety ==
  /\ (variant = "rtmp" /\ last.op = "symbol" /\ last.was) =>
       \A c \in ReleaseCalls \ (IF nofile THEN {"avio_closep"} ELSE {}) :
         /\ Count(log, c) = 1
         /\ \A i \in DOMAIN log : log[i][1] = c => i < FirstAcquire(log)
  /\ \A h1, h2 \in heap.live : h1[2] = h2[2]

\* C3: exactly-once release.  No library object is ever released when it is
\* not held, and after the destructor returns none is still held.
ExactlyOnceRelease ==
  /\ heap.dfree = {}
  /\ obj = "freed" => heap.live = {}

\* C4: handle/state invariant.  Between host calls the container and encoder
\* handles are non-null exactly when the session is active.
HandleStateInvariant ==
  obj = "alive" =>
    /\ Streaming => (x.fmt_ctx # NULL /\ x.codec_ctx # NULL)
    /\ ~Streaming => (x.fmt_ctx = NULL /\ x.codec_ctx = NULL)

\* C5: idempotent teardown.  cleanup_streaming called right after a
\* cleanup_streaming, or on a session that is not streaming, makes no
\* library call, changes nothing of the session, and leaves all handles null.
IdempotentTeardown ==
  [][(last'.op = "teardown" /\ (last.op = "teardown" \/ ~Streaming))
       => (log' = << >> /\ UNCHANGED <<x, fr, heap>> /\ HandlesNull')]_vars

\* C6: presentation clock.  The timestamp stamped on the frame of a block
\* encoded while streaming is the summed length of the blocks encoded before
\* it since the latest successful connect (0 for the first one).
PresentationClock ==
  (last.op = "perform" /\ last.was) => fr.pts + last.n = played

\* C7: real-time non-blocking.  A perform call on a session that is not
\* streaming makes no library call, emits no diagnostic and leaves the
\* object, the frame and the library objects as they were.
NonBlockingWhenIdle ==
  [][(last'.op = "perform" /\ ~Streaming)
       => (log' = << >> /\ UNCHANGED <<x, fr, heap>>)]_vars

\* C7 witness: a block was delivered to a push session that had already
\* failed to connect, and nothing was called.
NonBlockingWhenIdleWitness ==
  /\ variant = "rtmp" /\ obj = "alive"
  /\ last.op = "perform" /\ ~last.was
  /\ heap.live # {}
  /\ log = << >>

\* C8: a push object created with a non-empty URL of the valid scheme, and
\* not reconfigured since, is streaming, so that every block delivered to
\* it advances the clock.
CreatedWithValidUrl ==
  /\ variant = "rtmp" /\ obj = "alive"
  /\ heap.nextId = 1
  /\ x.url # << >> /\ Len(x.url[1]) > 0 /\ is_valid_rtmp_url(x.url[1])

CreationStartsStreaming ==
  CreatedWithValidUrl =>
    /\ Streaming
    /\ last.op = "perform" => x.pts >= last.n

\* C9: endpoint validation.  A symbol call of the push variant with a URL
\* that is empty or lacks the "rtmp://" prefix makes no acquisition call and
\* leaves the session idle with null handles.
EndpointValidation ==
  (variant = "rtmp" /\ last.op = "symbol"
     /\ (Len(x.url[1]) = 0 \/ ~is_valid_rtmp_url(x.url[1])))
    => (Names(log) \cap AcquireCalls = {} /\ ~Streaming /\ HandlesNull)

\* C10: per-block errors are non-fatal.  A perform call whose submission,
\* drain or transmission fails leaves the session streaming with the same
\* container, stream, encoder and frame and the same library objects, having
\* made no release and no acquisition call; and the perform call after it
\* submits a frame again.
PerBlockErrorsNonFatal ==
  [][/\ (last'.op = "perform" /\ Streaming /\ BlockFailed(log'))
          => /\ Streaming'
             /\ x'.fmt_ctx = x.fmt_ctx /\ x'.audio_st = x.audio_st
             /\ x'.codec_ctx = x.codec_ctx /\ x'.frame = x.frame
             /\ heap' = heap
             /\ Names(log') \cap (AcquireCalls \cup ReleaseCalls) = {}
     /\ (last.op = "perform" /\ last.was /\ BlockFailed(log) /\ last'.op = "perform")
          => /\ log'[1] = <<"frame_data", x.frame, 0>>
             /\ Count(log', "avcodec_send_frame") = 1]_vars

\* C10 witness: a block on a session that had already encoded one failed at
\* the transmission of its second packet, and the session still streams.
PerBlockErrorsNonFatalWitness ==
  /\ Streaming
  /\ last.op = "perform" /\ last.was
  /\ played > last.n
  /\ Count(log, "av_interleaved_write_frame:OK") = 1
  /\ Count(log, "av_interleaved_write_frame:FAIL") = 1
  /\ BlockFailed(log)

(***************************************************************************)
(* Reading the log of one block.                                           *)
(***************************************************************************)
TransmitErrors(l) == Count(l, "pd_error:rtmp:write") + Count(l, "pd_error:rtsp:write")

PacketsDrained(l) == Count(l, "avcodec_receive_packet:PKT")

TransportFailsAll(l) == Count(l, "av_interleaved_write_frame:OK") = 0

StreamedBlock == last.op = "perform" /\ last.was

\* C11 (as stated): with a transport that fails every write, a block fed to a
\* Streaming session leaves it Streaming and reports exactly one transmit
\* error, however many packets the encoder emits for the block.
TransmitErrorAccounting ==
  (StreamedBlock /\ TransportFailsAll(log))
    => Streaming /\ TransmitErrors(log) = 1

\* C11 (amended): with a transport that fails every write, a block fed to a
\* Streaming session leaves it Streaming and reports exactly one transmit
\* error when the encoder yields at least one packet for it, however many it
\* holds, and none when the submission fails or no packet is yielded.
TransmitErrorPerDrainedBlock ==
  (StreamedBlock /\ TransportFailsAll(log))
    => /\ Streaming
       /\ TransmitErrors(log) = IF PacketsDrained(log) > 0 THEN 1 ELSE 0

\* A second block of a session whose only write fails and is reported once.
TransmitErrorPerDrainedBlockWitness ==
  /\ StreamedBlock /\ Streaming
  /\ played > last.n
  /\ Count(log, "av_interleaved_write_frame:FAIL") = 1
  /\ TransportFailsAll(log)
  /\ TransmitErrors(log) = 1

\* C12: frame bound.  In every state of a streaming session the frame's
\* sample count is at most the capacity allocated at connect, and a block has
\* stored no sample at a place at or beyond that capacity, whatever the
\* length of the block.
FrameBound ==
  Streaming => (fr.nb_samples <= fr.cap /\ Len(fr.data) <= fr.cap)

\* What is stored for a sample v of the range [-1.0, 1.0]: the float itself
\* for rtmpstreamer~, the integer part of v * 32767 for rtspstreamer~.
StoredFor(v, d) ==
  IF variant = "rtmp" THEN d = v
  ELSE IF v >= 0
       THEN d >= 0 /\ d * One <= v * Int16Scale /\ v * Int16Scale < (d + 1) * One
       ELSE d <= 0 /\ (d - 1) * One < v * Int16Scale /\ v * Int16Scale <= d * One

MaxValue == IF variant = "rtmp" THEN One ELSE Int16Scale

\* C15: sample clamping.  Of every block encoded, sample i is stored at place
\* i of the frame; a sample below -1.0 is stored as the minimum of the range,
\* a sample above 1.0 as the maximum, any other as itself (float variant) or
\* as sample * 32767 without its fraction (16-bit variant); a greater sample
\* is never stored as a smaller value.
SampleClamping ==
  StreamedBlock =>
    /\ DOMAIN fr.data = 1 .. last.n
    /\ \A i \in 1 .. last.n :
         /\ last.in[i] < -One => fr.data[i] = -MaxValue
         /\ last.in[i] > One => fr.data[i] = MaxValue
         /\ (-One <= last.in[i] /\ last.in[i] <= One) => StoredFor(last.in[i], fr.data[i])
    /\ \A i, j \in 1 .. last.n :
         last.in[i] <= last.in[j] => fr.data[i] <= fr.data[j]

\* A 16-bit block of a sample above 1.0 and the sample -0.5.
SampleClampingWitness ==
  /\ StreamedBlock /\ variant = "rtsp"
  /\ last.in = <<One + 1, -1>>
  /\ fr.data = <<32767, -16383>>

\* C13: best-effort teardown.  When the trailer fails in a teardown (of a
\* symbol call or of the destructor), the failure is reported right after it,
\* and the teardown still closes the transport and releases the container,
\* the encoder and the frame, each once, and ends with every handle null.
BestEffortTeardown ==
  \A i \in DOMAIN log :
    log[i][1] = "av_write_trailer:failed" =>
      /\ i < Len(log) /\ log[i + 1][1] \in Diagnostics
      /\ \A c \in {"avformat_free_context", "avcodec_free_context", "av_frame_free"} :
           Count(log, c) = 1
      /\ nofile \/ Count(log, "avio_closep") = 1
      /\ last.op = "free" => HandlesNull

\* The packet numbers of the entries of a log that carry one of `names`, in
\* the order of the log.
PktsOf(l, names) ==
  LET sel == SelectSeq(l, LAMBDA e : e[1] \in names)
  IN [i \in DOMAIN sel |-> sel[i][3]]

Writes == {"av_interleaved_write_frame:OK", "av_interleaved_write_frame:FAIL"}

PktsHeld == {h \in heap.live : h[1] = "pkt"}

\* C14: packet ordering.  The packets handed to the transport by a call are
\* the packets the encoder emitted during that call, in the order it emitted
\* them, and no packet is held from one call to the next.
PacketOrdering ==
  /\ PktsHeld = {}
  /\ last.op = "perform" =>
       /\ PktsOf(log, Writes) = PktsOf(log, {"avcodec_receive_packet:PKT"})
       /\ \A i \in DOMAIN PktsOf(log, Writes) : PktsOf(log, Writes)[i] = i

\* A later block of a session for which the encoder emits two packets, both
\* written in that order.
PacketOrderingWitness ==
  /\ StreamedBlock /\ played > last.n
  /\ PktsOf(log, {"avcodec_receive_packet:PKT"}) = <<1, 2>>
  /\ PktsOf(log, Writes) = <<1, 2>>

\* The number of entries of a log that carry one of `names` for packet k.
CountPkt(l, names, k) ==
  Cardinality({i \in DOMAIN l : l[i][1] \in names /\ l[i][3] = k})

\* C19: packet release.  Every packet a call drains is stamped with the
\* stream's index, then handed to the transport, then released, in
\* consecutive calls and each exactly once, whether the write succeeded or
\* failed; when the call returns no drained packet is held and none was
\* released twice.
PacketRelease ==
  last.op = "perform" =>
    /\ \A i \in DOMAIN log :
         log[i][1] = "avcodec_receive_packet:PKT" =>
           LET k == log[i][3]
           IN /\ i + 3 <= Len(log)
              /\ log[i + 1] = <<"stream_index", x.audio_st, k>>
              /\ log[i + 2][1] \in Writes /\ log[i + 2][3] = k
              /\ log[i + 3] = <<"av_packet_unref", 0, k>>
              /\ CountPkt(log, Writes, k) = 1
              /\ CountPkt(log, {"av_packet_unref"}, k) = 1
    /\ Count(log, "av_packet_unref") = PacketsDrained(log)
    /\ PktsHeld = {}
    /\ \A h \in heap.dfree : h[1] # "pkt"

\* A block whose first packet is written and whose second fails at the
\* write: both are released.
PacketReleaseWitness ==
  /\ StreamedBlock
  /\ PktsOf(log, {"av_interleaved_write_frame:OK"}) = <<1>>
  /\ PktsOf(log, {"av_interleaved_write_frame:FAIL"}) = <<2>>
  /\ PktsOf(log, {"av_packet_unref"}) = <<1, 2>>

\* C16: in the RTSP variant the URL is set up at creation only.  A symbol
\* call at run time reports that the change is not supported and makes no
\* library call; the container, stream, encoder and frame handles, the
\* frame, the clock, the objects held and the open session stay as they were.
RuntimeUrlUnsupported ==
  [][(variant = "rtsp" /\ last'.op = "symbol")
       => /\ log' = << <<"pd_error:runtime_url_not_supported", 0, 0>> >>
          /\ x'.fmt_ctx = x.fmt_ctx /\ x'.audio_st = x.audio_st
          /\ x'.codec_ctx = x.codec_ctx /\ x'.frame = x.frame
          /\ x'.pts = x.pts
          /\ fr' = fr /\ heap' = heap
          /\ Streaming /\ Streaming']_vars

\* A symbol call on an RTSP session that has encoded a block: the session
\* is open and its clock stands where the block left it.
RuntimeUrlUnsupportedWitness ==
  /\ variant = "rtsp" /\ last.op = "symbol" /\ Streaming
  /\ x.url = <<UrlHttp>>
  /\ x.pts > 0 /\ x.pts = played
  /\ x.fmt_ctx # NULL /\ <<"fmt", x.fmt_ctx>> \in heap.live

\* C17: no automatic retry.  A handler makes each acquisition call at most
\* once (one connect attempt at most); acquisition calls are made by the
\* symbol handler of the push variant (and the constructor of the RTSP
\* variant) only, never by a block or the destructor, whatever failed before;
\* and a symbol call with a valid URL whose sub-steps all succeed leaves the
\* session streaming, also after failed attempts.
NoAutomaticRetry ==
  /\ \A c \in AcquireCalls : Count(log, c) <= 1
  /\ Names(log) \cap AcquireCalls # {}
       => \/ variant = "rtmp" /\ last.op = "symbol"
          \/ variant = "rtsp" /\ last.op = "new"
  /\ (/\ variant = "rtmp" /\ last.op = "symbol" /\ last.fail = 0
      /\ x.url # << >> /\ is_valid_rtmp_url(x.url[1]))
       => Streaming /\ last.conn = "ok"

\* The second attempt of a push session succeeds after the first one failed
\* past the allocation of its container (which it still holds).
NoAutomaticRetryWitness ==
  /\ variant = "rtmp" /\ last.op = "symbol" /\ last.conn = "ok" /\ Streaming
  /\ x.fmt_ctx = 2 /\ <<"fmt", 1>> \in heap.live
  /\ Count(log, "avformat_alloc_output_context2") = 1

\* C18: the clock's frame condition.  The clock never decreases; a block
\* fed to a streaming session advances it by exactly the block's length,
\* also when the submission of the frame fails; every other step (a block
\* while idle, a symbol call whether its connect attempt succeeds or fails,
\* the destructor) leaves it as it was.
ClockFrameCondition ==
  [][/\ x'.pts >= x.pts
     /\ IF last'.op = "perform" /\ Streaming
        THEN x'.pts = x.pts + last'.n
        ELSE x'.pts = x.pts]_vars

\* A later block of a session is refused by the encoder and the clock has
\* advanced by its length all the same.
ClockFrameConditionWitness ==
  /\ StreamedBlock
  /\ Names(log) \cap {"pd_error:rtmp:send", "pd_error:rtsp:send"} # {}
  /\ fr.pts > 0
  /\ x.pts = fr.pts + last.n

ReceiveCalls ==
  {"avcodec_receive_packet:PKT", "avcodec_receive_packet:EAGAIN",
   "avcodec_receive_packet:EOF", "avcodec_receive_packet:ERR"}

ReceiveCount(l) == Cardinality({i \in DOMAIN l : l[i][1] \in ReceiveCalls})

\* C20: dispatch termination.  A block returns after finitely many drain
\* calls (one more than the packets drained, at most): the call that answers
\* EAGAIN or EOF is the last call of the block, with no diagnostic and no
\* transport call after it; a drain error is followed by its diagnostic only;
\* a failed write by the release of its packet and its diagnostic only; and
\* a failed submission is followed by its diagnostic only, no drain call
\* being made.
DispatchTermination ==
  last.op = "perform" =>
    /\ ReceiveCount(log) <= PacketsDrained(log) + 1
    /\ \A i \in DOMAIN log :
         /\ log[i][1] \in {"avcodec_receive_packet:EAGAIN", "avcodec_receive_packet:EOF"}
              => i = Len(log)
         /\ log[i][1] = "avcodec_receive_packet:ERR"
              => /\ i + 1 = Len(log)
                 /\ log[i + 1][1] \in {"pd_error:rtmp:encode", "pd_error:rtsp:encode"}
         /\ log[i][1] = "av_interleaved_write_frame:FAIL"
              => /\ i + 2 = Len(log)
                 /\ log[i + 1][1] = "av_packet_unref"
                 /\ log[i + 2][1] \in {"pd_error:rtmp:write", "pd_error:rtsp:write"}
         /\ log[i][1] \in {"pd_error:rtmp:send", "pd_error:rtsp:send"}
              => i = Len(log) /\ ReceiveCount(log) = 0
    /\ last.was =>
         log[Len(log)][1] \in
           {"avcodec_receive_packet:EAGAIN", "avcodec_receive_packet:EOF"} \cup BlockErrors

\* A block whose drain loop writes one packet and ends on EOF.
DispatchTerminationWitness ==
  /\ StreamedBlock
  /\ PacketsDrained(log) = 1 /\ ReceiveCount(log) = 2
  /\ log[Len(log)][1] = "avcodec_receive_packet:EOF"
  /\ log[Len(log) - 1][1] = "av_packet_unref"

\* The connect attempt made last: attempts are numbered from 1 and the
\* objects of attempt k carry k.
LatestAttempt == heap.nextId - 1

\* C21: with serialized calls, whenever the push object is alive and its
\* streaming_active flag is 1, the container, stream, encoder and frame
\* handles are non-null, are those of the connect attempt made last (which
\* succeeded), and the container, encoder and frame are still held with a
\* buffer allocated: a block dereferences no null or released handle.
ActiveHandlesValid ==
  (variant = "rtmp" /\ obj = "alive" /\ x.streaming_active = 1) =>
    /\ LatestAttempt # NULL
    /\ x.fmt_ctx = LatestAttempt /\ x.audio_st = LatestAttempt
    /\ x.codec_ctx = LatestAttempt /\ x.frame = LatestAttempt
    /\ {<<"fmt", x.fmt_ctx>>, <<"codec", x.codec_ctx>>, <<"frame", x.frame>>}
         \subseteq heap.live
    /\ fr.cap > 0
    /\ last.op = "perform" =>
         \A i \in DOMAIN log :
           log[i][1] \in {"frame_data", "avcodec_send_frame", "stream_index"} \cup
                         ReceiveCalls \cup Writes
             => log[i][2] = LatestAttempt

\* A block encoded on the session of a second connect attempt, made after
\* the first had failed and left its container behind.
ActiveHandlesValidWitness ==
  /\ variant = "rtmp" /\ StreamedBlock /\ x.streaming_active = 1
  /\ LatestAttempt = 2 /\ <<"fmt", 1>> \in heap.live
  /\ PacketsDrained(log) > 0
  /\ log[1] = <<"frame_data", 2, 0>>

\* The container, encoder and frame handles are set and held.
HandlesHeld ==
  /\ Deref("fmt", x.fmt_ctx) = "none"
  /\ Deref("codec", x.codec_ctx) = "none"
  /\ Deref("frame", x.frame) = "none"

\* C22: the safety of a block rests on the host's serialization.  With the
\* symbol handler and perform interleaved statement by statement, a block
\* dereferences a null or released handle only when it has read
\* streaming_active = 1 and the symbol handler's teardown released a handle
\* before clearing the flag, at that read or since; and the flag is 1 with a
\* handle null or released exactly in that window of the symbol handler,
\* which clears the flag only after cleanup_streaming has returned.
SafetyNeedsSerialization ==
  /\ pc.hazard # "none" => (pc.seen = 1 /\ pc.torn)
  /\ (x.streaming_active = 1 /\ ~HandlesHeld) => TearingDown

\* The state the claim names: a block read streaming_active = 1, took the
\* frame's buffer, and stored into it after cleanup_streaming had released
\* the frame, the symbol handler not having cleared the flag yet.
SafetyNeedsSerializationWitness ==
  /\ pc.seen = 1 /\ pc.p = "crashed"
  /\ pc.hazard = "released" /\ pc.at = "samples"
  /\ pc.q = "clear_flag" /\ x.streaming_active = 1
  /\ x.frame = NULL /\ <<"frame", pc.samples>> \notin heap.live

====
